---------------------------- MODULE Spec2Model ----------------------------
(***************************************************************************)
(* Model of the QR-code Telegram bot (src/main.py, src/main2.py,           *)
(* src/main_ru.py).                                                        *)
(*                                                                         *)
(* The three scripts are three builds of the same bot:                     *)
(*   "main"    : subscription gate, free text, photo decoding              *)
(*   "main2"   : no gate, URL-only text, photo decoding                    *)
(*   "main_ru" : no gate, URL-only text, no photo decoding                 *)
(*                                                                         *)
(* Every script creates Dispatcher() with no event isolation and runs      *)
(* dp.start_polling(bot) with its defaults, so every update is handled in  *)
(* a task of its own: a handler runs from one network await to the next,   *)
(* and handlers - of one user too - interleave at these awaits.  One       *)
(* action of the model is one such run between two awaits.  The FSM        *)
(* storage is in memory: its awaits do not suspend.                        *)
(***************************************************************************)
EXTENDS Integers, Sequences, FiniteSets, Bags, TLC

(***************************************************************************)
(* Bounds of the model.                                                    *)
(***************************************************************************)
\* number of updates that may be in flight (tasks) at the same time
MaxTasks == 2
\* bytes one QR symbol holds: stands for 2953 (version 40, level L)
Capacity == 12
\* calls of dp.start_polling that main is followed through
MaxStarts == 3
\* shutdown signals sent to the process
MaxSignals == 2

(***************************************************************************)
(* Identities.                                                             *)
(***************************************************************************)
Users == {"u1", "u2"}
\* the bot's own account: the author of every message the bot sends
Bot == "bot"

(***************************************************************************)
(* Text: a Python str is a sequence of code points, bytes a sequence of    *)
(* 0..255.  None is the value user_data.get(...) gives for a missing key   *)
(* and message.text gives for a message without text.                      *)
(***************************************************************************)
None == <<-1>>

\* str.encode('utf-8') of one code point
EncodeCodePoint(cp) ==
    IF cp < 128 THEN <<cp>>
    ELSE IF cp < 2048 THEN <<192 + (cp \div 64), 128 + (cp % 64)>>
    ELSE <<224 + (cp \div 4096), 128 + ((cp \div 64) % 64), 128 + (cp % 64)>>

RECURSIVE UTF8Encode(_)
\* str.encode('utf-8')
UTF8Encode(s) ==
    IF s = <<>> THEN <<>>
    ELSE EncodeCodePoint(Head(s)) \o UTF8Encode(Tail(s))

IsCont(b) == b >= 128 /\ b <= 191

\* the number of bytes of the UTF-8 sequence that starts bytes, 0 when the
\* sequence is malformed or cut short
LeadLen(bs) ==
    LET b == Head(bs) IN
    IF b < 128 THEN 1
    ELSE IF b >= 194 /\ b <= 223 /\ Len(bs) >= 2 /\ IsCont(bs[2]) THEN 2
    ELSE IF b >= 224 /\ b <= 239 /\ Len(bs) >= 3 /\ IsCont(bs[2]) /\ IsCont(bs[3])
              /\ (b - 224) * 4096 + (bs[2] - 128) * 64 >= 2048 THEN 3
    ELSE 0

RECURSIVE UTF8Valid(_)
\* whether bytes.decode('utf-8') returns (otherwise: UnicodeDecodeError)
UTF8Valid(bs) ==
    IF bs = <<>> THEN TRUE
    ELSE LET n == LeadLen(bs) IN
         n > 0 /\ UTF8Valid(SubSeq(bs, n + 1, Len(bs)))

RECURSIVE UTF8Decode(_)
\* bytes.decode('utf-8') of valid bytes
UTF8Decode(bs) ==
    IF bs = <<>> THEN <<>>
    ELSE LET n == LeadLen(bs)
             cp == IF n = 1 THEN bs[1]
                   ELSE IF n = 2 THEN (bs[1] - 192) * 64 + (bs[2] - 128)
                   ELSE (bs[1] - 224) * 4096 + (bs[2] - 128) * 64 + (bs[3] - 128)
         IN  <<cp>> \o UTF8Decode(SubSeq(bs, n + 1, Len(bs)))

\* str.startswith(prefix)
StartsWith(s, prefix) ==
    Len(s) >= Len(prefix) /\ SubSeq(s, 1, Len(prefix)) = prefix

HttpPrefix == <<104, 116, 116, 112, 58, 47, 47>>
HttpsPrefix == <<104, 116, 116, 112, 115, 58, 47, 47>>

\* a test that knows "http://" alone
IsHttp(text) == text # None /\ StartsWith(text, HttpPrefix)

\* message.text.startswith(('http://', 'https://'))
IsUrl(text) ==
    text # None /\ (StartsWith(text, HttpPrefix) \/ StartsWith(text, HttpsPrefix))

(***************************************************************************)
(* The texts a user sends.                                                 *)
(***************************************************************************)
\* "hello world"
Hello == <<104, 101, 108, 108, 111, 32, 119, 111, 114, 108, 100>>
\* "http://a"
UrlHttp == HttpPrefix \o <<97>>
\* "https://a"
UrlHttps == HttpsPrefix \o <<97>>
\* "a", the Cyrillic "zhe" and the euro sign: 1, 2 and 3 bytes
NonAscii == <<97, 1078, 8364>>
\* a URL one byte longer than a symbol holds
TooLong == HttpPrefix \o [i \in 1..(Capacity - 6) |-> 97]

(***************************************************************************)
(* Images.  syms: the byte strings of the QR symbols in the picture, in    *)
(* detection order; fill: the colour of the modules; back: the colour of   *)
(* the ground.                                                             *)
(***************************************************************************)
NoImage == [syms |-> <<>>, back |-> "none", fill |-> "none"]

\* a ground that is white whatever the choice
WhiteGround(color) == "white"

\* back_color = "white" if color == "light" else "black"
BackColor(color) == IF color = "light" THEN "white" ELSE "black"

\* fill_color = "black" if color == "light" else "white"
FillColor(color) == IF color = "light" THEN "black" ELSE "white"

\* whether building the argument of qr.add_data raises: main.py passes
\* text.encode('utf-8'), and None has no encode (AttributeError)
AddDataRaises(v, text) == v = "main" /\ text = None

\* the bytes qr.add_data receives.  main2.py and main_ru.py pass the stored
\* value itself, which the library turns into str(value).encode('utf-8'):
\* None becomes the four letters of "None".
QRBytes(v, text) ==
    IF text = None THEN UTF8Encode(<<78, 111, 110, 101>>) ELSE UTF8Encode(text)

\* qr.make(fit=True): the smallest version from 1 on that holds the data;
\* none does: DataOverflowError
Fits(bytes) == Len(bytes) <= Capacity

\* qr.make_image(fill_color=..., back_color=...), saved as JPEG
MakeImage(bytes, color) ==
    [syms |-> <<bytes>>, back |-> BackColor(color), fill |-> FillColor(color)]

\* the try block of process_color_choice up to img.save: the exception it
\* raises ("" when none) and the image it writes
Encode(v, text, color) ==
    IF AddDataRaises(v, text) THEN [err |-> "AttributeError", img |-> NoImage]
    ELSE IF ~Fits(QRBytes(v, text)) THEN [err |-> "DataOverflowError", img |-> NoImage]
    ELSE [err |-> "", img |-> MakeImage(QRBytes(v, text), color)]

\* pyzbar's decode(img): the symbols of a picture with dark modules on a
\* light ground; a picture with light modules on a dark ground gives none
\* (what the retry of process_photo is written for)
Scan(img) ==
    IF img.fill = "black" /\ img.back = "white" THEN img.syms ELSE <<>>

Complement(c) ==
    IF c = "white" THEN "black" ELSE IF c = "black" THEN "white" ELSE c

\* cv2.bitwise_not(img)
BitwiseNot(img) ==
    [syms |-> img.syms, back |-> Complement(img.back), fill |-> Complement(img.fill)]

\* decoded_objects without the retry on the inverted image
DecodedOnce(img) == Scan(img)

\* decoded_objects of process_photo: decode(img), and decode of the
\* inverted image when that found nothing
DecodedObjects(img) ==
    LET first == Scan(img) IN
    IF first = <<>> THEN Scan(BitwiseNot(img)) ELSE first

\* decode called on the picture and on its inverse, whatever the first found
AttemptsBoth(img) == <<img, BitwiseNot(img)>>

\* the pictures process_photo hands to decode, in order: the picture, and
\* its inverse `if not decoded_objects`
Attempts(img) ==
    IF Scan(img) = <<>> THEN <<img, BitwiseNot(img)>> ELSE <<img>>

(***************************************************************************)
(* The photos a user sends.                                                *)
(***************************************************************************)
Colors == {"light", "dark"}

\* the picture the bot makes of "hello world" for "dark"
DarkPhoto == MakeImage(UTF8Encode(Hello), "dark")

\* a picture without a QR symbol
Blank == [syms |-> <<>>, back |-> "gray", fill |-> "gray"]

\* a picture of two QR symbols
TwoSymbols ==
    [syms |-> <<UTF8Encode(Hello), UTF8Encode(NonAscii)>>,
     back |-> "white", fill |-> "black"]

\* a picture of two QR symbols, the second of bytes that are no UTF-8
BadUtf8 ==
    [syms |-> <<UTF8Encode(UrlHttp), <<195>>>>, back |-> "white", fill |-> "black"]

Photos == {Blank, TwoSymbols, BadUtf8, DarkPhoto}

(***************************************************************************)
(* State.                                                                  *)
(***************************************************************************)
VARIABLES
    variant,    \* which of the three scripts runs
    env,        \* who writes to the bot, what they send and the statuses
                \* they have in the channel
    state,      \* FSM storage: the state of every user's session
    data,       \* FSM storage: the "text" ("url") datum of every user's session
    file,       \* the working directory: the content of qr_code_<user>.jpeg
    tasks,      \* the handlers in flight: a bag of tasks
    last,       \* the handler that ended in the last step, if one did, and
                \* the session it left
    chain,      \* per user, since the payload was stored: what followed
    main        \* the coroutine main: where its loop stands

vars == <<variant, env, state, data, file, tasks, last, chain, main>>

\* what no handler changes
config == <<variant, env, main>>

Variants == {"main", "main2", "main_ru"}

\* TARGET_CHANNEL_ID exists in main.py only; main.py refuses to start without
GatingEnabled(v) == v = "main"

\* QRCodeStates; waiting_for_input stands for waiting_for_url_or_photo
\* (main2.py) and waiting_for_url (main_ru.py) too.  NoState is the state
\* None of a session that was never set or was cleared.
NoState == "none"
WaitingForSubscriptionCheck == "waiting_for_subscription_check"
WaitingForInput == "waiting_for_input"
WaitingForColor == "waiting_for_color"

\* the statuses of a chat member
Statuses == {"creator", "administrator", "member", "restricted", "left", "kicked"}

\* a membership test that refuses only those who left or were removed
StatusNotLeft(status) == status \notin {"left", "kicked"}

\* member.status in ["member", "administrator", "creator"]
StatusSubscribed(status) == status \in {"member", "administrator", "creator"}

\* is_user_subscribed, given how bot.get_chat_member ended: with a status,
\* or raising TelegramBadRequest or another exception
IsUserSubscribed(outcome) ==
    IF outcome \in {"TelegramBadRequest", "TelegramNetworkError"} THEN FALSE
    ELSE StatusSubscribed(outcome)

NoFile == NoImage

(***************************************************************************)
(* Updates.                                                                *)
(***************************************************************************)
StartEvent == [kind |-> "start", text |-> None, photo |-> NoImage, data |-> ""]
TextEvent(t) == [kind |-> "text", text |-> t, photo |-> NoImage, data |-> ""]
PhotoEvent(p) == [kind |-> "photo", text |-> None, photo |-> p, data |-> ""]
CallbackEvent(d) == [kind |-> "callback", text |-> None, photo |-> NoImage, data |-> d]

\* the tokens of the buttons a chat can hold.  The chat outlives the
\* process, so a button can be pressed in every state of the session.
Tokens(v) == IF GatingEnabled(v) THEN Colors \cup {"check_subscription"} ELSE Colors

\* a dispatcher whose message handlers carry no state filter
HandlerInAnyState(v, st, ev) ==
    IF ev.kind = "start" THEN "cmd_start"
    ELSE IF ev.kind = "callback"
    THEN IF st = WaitingForColor THEN "process_color_choice" ELSE "none"
    ELSE IF ev.kind = "photo" THEN "process_photo"
    ELSE "process_text"

\* the handler the dispatcher gives an update to: the first registered one
\* whose filters accept it, "none" when no handler does
Handler(v, st, ev) ==
    IF ev.kind = "start" THEN "cmd_start"
    ELSE IF ev.kind = "callback"
    THEN IF v = "main" /\ ev.data = "check_subscription"
              /\ st = WaitingForSubscriptionCheck
         THEN "check_subscription_callback"
         ELSE IF st = WaitingForColor THEN "process_color_choice" ELSE "none"
    ELSE IF st # WaitingForInput THEN "none"
    ELSE IF v = "main_ru" THEN "process_url"
    ELSE IF ev.kind = "photo" THEN "process_photo"
    ELSE IF v = "main" THEN "process_text" ELSE "process_url"

(***************************************************************************)
(* Handlers in flight.                                                     *)
(***************************************************************************)
\* what a handler sends to the chat
Reply(kind) == [kind |-> kind, text |-> <<>>, img |-> NoImage, link |-> "", buttons |-> {}]

\* a handler in flight.  pc: the await it is suspended at; err: the
\* exception its except clause caught; raised: the exception that left it;
\* alone: whether no other handler of the same user was in flight while it
\* was; replaced: the payload its state.update_data overwrote; the other
\* fields are its local variables
NewTask(handler, u, pc, ev) ==
    [handler |-> handler, user |-> u, pc |-> pc, event |-> ev,
     queried |-> "", status |-> "", userStatus |-> "",
     link |-> "", text |-> None, img |-> NoImage, uploaded |-> NoImage,
     scanned |-> <<>>, found |-> <<>>, idx |-> 0,
     replies |-> <<>>, err |-> "", raised |-> "", alone |-> TRUE,
     replaced |-> None]

NoLast == [task |-> NewTask("none", "", "", StartEvent), state |-> "", data |-> None]

\* since the payload of the user was stored: images, the images sent to the
\* user; pressed, whether a press of "light" or "dark" reached
\* process_color_choice; clean, whether the text arrived when no handler of
\* the user was in flight and since then no call to Telegram failed, the
\* payload fitted a symbol and no other event of the user was handled.
\* What follows is no longer counted once clean is lost.
NewChain == [images |-> 0, pressed |-> FALSE, clean |-> TRUE]
Dirty == [images |-> 0, pressed |-> FALSE, clean |-> FALSE]

InFlight(u) == {t \in BagToSet(tasks) : t.user = u}

\* the tasks in flight, those of user u marked as overlapping another one
Overlapped(u) ==
    LET mark(t) == IF t.user = u THEN [t EXCEPT !.alone = FALSE] ELSE t
        marked == {mark(t) : t \in BagToSet(tasks)}
    IN  [m \in marked |->
            BagCardinality([t \in {x \in BagToSet(tasks) : mark(x) = m} |-> tasks[t]])]

\* an update arrives: its task starts beside the tasks that are in flight
Arrive(t) ==
    /\ BagCardinality(tasks) < MaxTasks
    /\ tasks' = Overlapped(t.user)
                (+) SetToBag({[t EXCEPT !.alone = (InFlight(t.user) = {})]})
    /\ last' = NoLast

\* the handler suspends at its next await
Continue(task, t) ==
    /\ tasks' = (tasks (-) SetToBag({task})) (+) SetToBag({t})
    /\ last' = NoLast

\* the handler ends: how is "returned", or "raised" when an exception left it
End(task, t, how) ==
    /\ tasks' = tasks (-) SetToBag({task})
    /\ last' = [task |-> [t EXCEPT !.pc = how],
                state |-> state'[t.user], data |-> data'[t.user]]

\* a call to Telegram made for user u failed, or an event of u other than
\* the text and the press of a colour was handled
Disturbed(u) == chain' = [chain EXCEPT ![u] = Dirty]

\* a press of a colour reaches process_color_choice
Pressed(u) ==
    chain' = [chain EXCEPT ![u] = IF @.clean THEN [@ EXCEPT !.pressed = TRUE] ELSE @]

\* an image reaches the user
Delivered(u) ==
    chain' = [chain EXCEPT ![u] = IF @.clean THEN [@ EXCEPT !.images = @ + 1] ELSE @]

Sent(t, reply) == [t EXCEPT !.replies = Append(@, reply)]

At(task, handlers, pc) ==
    /\ BagIn(task, tasks)
    /\ task.handler \in handlers
    /\ task.pc = pc

\* main awaits its first dp.start_polling(bot).  pc: "polling" in
\* dp.start_polling, "sleeping" in asyncio.sleep, "stopped" after break,
\* "raised" when an exception left main; starts: the calls of
\* dp.start_polling so far; slept: the seconds of the sleep that have passed;
\* signals: the shutdown signals sent so far; pending: whether one of them
\* is not yet acted on; exc: the exception that left main
MainStarted ==
    [pc |-> "polling", starts |-> 1, slept |-> 0, signals |-> 0,
     pending |-> FALSE, exc |-> ""]

\* the process has started: no session, no file, no update yet
Init(v, e) ==
    /\ variant = v
    /\ env = e
    /\ state = [u \in Users |-> NoState]
    /\ data = [u \in Users |-> None]
    /\ file = [u \in Users |-> NoFile]
    /\ tasks = EmptyBag
    /\ last = NoLast
    /\ chain = [u \in Users |-> NewChain]
    /\ main = MainStarted

(***************************************************************************)
(* cmd_start, and check_subscription_callback, which calls it.             *)
(***************************************************************************)
\* how a call to Telegram that is inside no try block, or inside one that
\* catches every Exception alike, ends
SendOutcomes == {"ok", "TelegramNetworkError"}

\* how a call inside the try block of cmd_start ends
GateOutcomes == {"ok", "TelegramBadRequest", "TelegramNetworkError"}

StartHandlers == {"cmd_start", "check_subscription_callback"}

\* /start arrives.  main.py: user_id = message.from_user.id, then the await
\* of bot.get_chat_member.  main2.py, main_ru.py: the await of the welcome.
cmd_start_begin(u) ==
    /\ Handler(variant, state[u], StartEvent) = "cmd_start"
    /\ Arrive([NewTask("cmd_start", u,
                       IF GatingEnabled(variant) THEN "get_chat_member" ELSE "welcome",
                       StartEvent)
               EXCEPT !.queried = u])
    /\ Disturbed(u)
    /\ UNCHANGED <<config, state, data, file>>

\* a press of "check_subscription" arrives in waiting_for_subscription_check:
\* the await of callback_query.answer()
check_subscription_callback_begin(u) ==
    /\ Handler(variant, state[u], CallbackEvent("check_subscription"))
           = "check_subscription_callback"
    /\ Arrive(NewTask("check_subscription_callback", u, "callback_answer",
                      CallbackEvent("check_subscription")))
    /\ Disturbed(u)
    /\ UNCHANGED <<config, state, data, file>>

\* callback_query.answer() ends; cmd_start(callback_query.message, state):
\* the message is the bot's own, so message.from_user.id is the bot
check_subscription_callback_answered(task) ==
    /\ At(task, {"check_subscription_callback"}, "callback_answer")
    /\ LET t == task IN
       \E o \in SendOutcomes :
          IF o = "ok"
          THEN /\ Continue(task, [t EXCEPT !.pc = "get_chat_member", !.queried = Bot])
               /\ UNCHANGED <<config, state, data, file, chain>>
          ELSE /\ UNCHANGED <<state, data>>
               /\ End(task, [t EXCEPT !.raised = o], "raised")
               /\ Disturbed(t.user)
               /\ UNCHANGED <<config, file>>

\* the members of the channel: the user with some status, and the bot,
\* which is in a channel as administrator only
Members(u) ==
    {[id \in {u, Bot} |-> IF id = Bot THEN "administrator" ELSE s] :
        s \in env.statuses}

\* bot.get_chat_member ends: is_user_subscribed returns, and cmd_start awaits
\* the welcome or bot.get_chat.  member: the channel's members at that time.
cmd_start_get_chat_member(task) ==
    /\ At(task, StartHandlers, "get_chat_member")
    /\ LET t == task IN
       \E o \in GateOutcomes, member \in Members(t.user) :
          LET status == IF o = "ok" THEN member[t.queried] ELSE o
              t2 == [t EXCEPT !.status = status,
                              !.userStatus = IF o = "ok" THEN member[t.user] ELSE "",
                              !.pc = IF IsUserSubscribed(status)
                                     THEN "welcome" ELSE "get_chat"]
          IN  /\ Continue(task, t2)
              /\ IF o = "ok" THEN UNCHANGED chain ELSE Disturbed(t.user)
              /\ UNCHANGED <<config, state, data, file>>

\* a cmd_start that sends the welcome and sets no state
cmd_start_welcome_only(task) ==
    /\ At(task, StartHandlers, "welcome")
    /\ UNCHANGED <<state, data>>
    /\ End(task, Sent(task, Reply("welcome")), "returned")
    /\ UNCHANGED <<config, file, chain>>

\* message.answer(welcome) ends; state.set_state(waiting_for_input)
cmd_start_welcome(task) ==
    /\ At(task, StartHandlers, "welcome")
    /\ LET t == task IN
       \E o \in SendOutcomes :
          IF o = "ok"
          THEN /\ state' = [state EXCEPT ![t.user] = WaitingForInput]
               /\ UNCHANGED data
               /\ End(task, Sent(t, Reply("welcome")), "returned")
               /\ UNCHANGED <<config, file, chain>>
          ELSE /\ UNCHANGED <<state, data>>
               /\ End(task, [t EXCEPT !.raised = o], "raised")
               /\ Disturbed(t.user)
               /\ UNCHANGED <<config, file>>

\* bot.get_chat ends: with a chat that has an invite link, with one that has
\* none (the await of bot.export_chat_invite_link), or raising
cmd_start_get_chat(task) ==
    /\ At(task, StartHandlers, "get_chat")
    /\ LET t == task IN
       \/ /\ Continue(task, [t EXCEPT !.link = "chat.invite_link", !.pc = "prompt"])
          /\ UNCHANGED <<config, state, data, file, chain>>
       \/ /\ Continue(task, [t EXCEPT !.pc = "export_chat_invite_link"])
          /\ UNCHANGED <<config, state, data, file, chain>>
       \/ \E o \in GateOutcomes \ {"ok"} :
             /\ Continue(task, [t EXCEPT !.err = o, !.pc = "error_reply"])
             /\ Disturbed(t.user)
             /\ UNCHANGED <<config, state, data, file>>

\* bot.export_chat_invite_link ends
cmd_start_export_chat_invite_link(task) ==
    /\ At(task, StartHandlers, "export_chat_invite_link")
    /\ LET t == task IN
       \E o \in GateOutcomes :
          IF o = "ok"
          THEN /\ Continue(task, [t EXCEPT !.link = "exported_link", !.pc = "prompt"])
               /\ UNCHANGED <<config, state, data, file, chain>>
          ELSE /\ Continue(task, [t EXCEPT !.err = o, !.pc = "error_reply"])
               /\ Disturbed(t.user)
               /\ UNCHANGED <<config, state, data, file>>

\* a prompt that carries neither link nor button
BarePrompt(link) == Reply("subscribe_prompt")

\* the subscribe prompt, with its two buttons
SubscribePrompt(link) ==
    [Reply("subscribe_prompt") EXCEPT
        !.link = link, !.buttons = {"subscribe", "check_subscription"}]

\* message.answer(prompt, reply_markup=keyboard) ends;
\* state.set_state(waiting_for_subscription_check)
cmd_start_prompt(task) ==
    /\ At(task, StartHandlers, "prompt")
    /\ LET t == task IN
       \E o \in GateOutcomes :
          IF o = "ok"
          THEN /\ state' = [state EXCEPT ![t.user] = WaitingForSubscriptionCheck]
               /\ UNCHANGED data
               /\ End(task, Sent(t, SubscribePrompt(t.link)), "returned")
               /\ UNCHANGED <<config, file, chain>>
          ELSE /\ Continue(task, [t EXCEPT !.err = o, !.pc = "error_reply"])
               /\ Disturbed(t.user)
               /\ UNCHANGED <<config, state, data, file>>

\* the message of the except clause that caught err
StartErrorReply(err) ==
    IF err = "TelegramBadRequest"
    THEN Reply("configuration_error") ELSE Reply("unexpected_error")

\* the message.answer of an except clause of cmd_start ends
cmd_start_error_reply(task) ==
    /\ At(task, StartHandlers, "error_reply")
    /\ LET t == task IN
       \E o \in SendOutcomes :
          /\ UNCHANGED <<state, data>>
          /\ IF o = "ok"
             THEN /\ End(task, Sent(t, StartErrorReply(t.err)), "returned")
                  /\ UNCHANGED chain
             ELSE /\ End(task, [t EXCEPT !.raised = o], "raised")
                  /\ Disturbed(t.user)
          /\ UNCHANGED <<config, file>>

(***************************************************************************)
(* process_text (main.py) and process_url (main2.py, main_ru.py).          *)
(***************************************************************************)
ChooseColor == [Reply("choose_color") EXCEPT !.buttons = Colors]

\* a text arrives in waiting_for_input: state.update_data(text=message.text),
\* then the await of the message with the two colour buttons
process_text_begin(u, text) ==
    /\ Handler(variant, state[u], TextEvent(text)) = "process_text"
    /\ data' = [data EXCEPT ![u] = text]
    /\ chain' = [chain EXCEPT ![u] = IF InFlight(u) = {} THEN NewChain ELSE Dirty]
    /\ Arrive([NewTask("process_text", u, "choose_color", TextEvent(text))
                   EXCEPT !.replaced = data[u]])
    /\ UNCHANGED <<config, state, file>>

\* a message arrives in waiting_for_input (main_ru.py: of any kind, so
\* message.text may be None): a text that is no URL is answered and left;
\* a URL is stored with state.update_data(url=message.text)
process_url_begin(u, ev) ==
    /\ Handler(variant, state[u], ev) = "process_url"
    /\ IF IsUrl(ev.text)
       THEN /\ data' = [data EXCEPT ![u] = ev.text]
            /\ chain' = [chain EXCEPT ![u] =
                            IF InFlight(u) = {} THEN NewChain ELSE Dirty]
            /\ Arrive([NewTask("process_url", u, "choose_color", ev)
                           EXCEPT !.replaced = data[u]])
       ELSE /\ UNCHANGED data
            /\ Disturbed(u)
            /\ Arrive(NewTask("process_url", u, "not_url", ev))
    /\ UNCHANGED <<config, state, file>>

\* message.answer(not a URL) ends; return
process_url_not_url(task) ==
    /\ At(task, {"process_url"}, "not_url")
    /\ LET t == task IN
       \E o \in SendOutcomes :
          /\ UNCHANGED <<state, data>>
          /\ IF o = "ok"
             THEN /\ End(task, Sent(t, Reply("not_url")), "returned")
                  /\ UNCHANGED chain
             ELSE /\ End(task, [t EXCEPT !.raised = o], "raised")
                  /\ Disturbed(t.user)
          /\ UNCHANGED <<config, file>>

\* message.answer(choose a colour) ends; state.set_state(waiting_for_color)
process_text_choose_color(task) ==
    /\ At(task, {"process_text", "process_url"}, "choose_color")
    /\ LET t == task IN
       \E o \in SendOutcomes :
          IF o = "ok"
          THEN /\ state' = [state EXCEPT ![t.user] = WaitingForColor]
               /\ UNCHANGED data
               /\ End(task, Sent(t, ChooseColor), "returned")
               /\ UNCHANGED <<config, file, chain>>
          ELSE /\ UNCHANGED <<state, data>>
               /\ End(task, [t EXCEPT !.raised = o], "raised")
               /\ Disturbed(t.user)
               /\ UNCHANGED <<config, file>>

(***************************************************************************)
(* process_photo (main.py, main2.py).                                      *)
(***************************************************************************)
\* a photo arrives in waiting_for_input: the await of bot.get_file
process_photo_begin(u, photo) ==
    /\ Handler(variant, state[u], PhotoEvent(photo)) = "process_photo"
    /\ Arrive(NewTask("process_photo", u, "get_file", PhotoEvent(photo)))
    /\ Disturbed(u)
    /\ UNCHANGED <<config, state, data, file>>

\* an exception is caught by except Exception: the await of the message
\* that says so
Caught(task, t, err) ==
    /\ Continue(task, [t EXCEPT !.err = err, !.pc = "failure_reply"])
    /\ UNCHANGED <<config, state, data, file>>

\* bot.get_file ends: the await of bot.download_file
process_photo_get_file(task) ==
    /\ At(task, {"process_photo"}, "get_file")
    /\ LET t == task IN
       \E o \in SendOutcomes :
          IF o = "ok"
          THEN /\ Continue(task, [t EXCEPT !.pc = "download_file"])
               /\ UNCHANGED <<config, state, data, file, chain>>
          ELSE Caught(task, t, o) /\ Disturbed(t.user)

\* state.clear(), then the await of the closing hint
Clear(task, t) ==
    /\ state' = [state EXCEPT ![t.user] = NoState]
    /\ data' = [data EXCEPT ![t.user] = None]
    /\ Continue(task, [t EXCEPT !.pc = "hint"])

\* a reply loop that is left after its first turn
ReplyLoopOnce(task, t, k) ==
    IF k > 1
    THEN /\ Clear(task, [t EXCEPT !.idx = k])
         /\ UNCHANGED <<config, file>>
    ELSE /\ Continue(task, [t EXCEPT !.idx = k, !.pc = "reply"])
         /\ UNCHANGED <<config, state, data, file>>

\* the reply loop reaches decoded object k: obj.data.decode('utf-8'), then
\* the await of the reply; past the last object, the try block is left
ReplyLoop(task, t, k) ==
    IF k > Len(t.found)
    THEN /\ Clear(task, [t EXCEPT !.idx = k])
         /\ UNCHANGED <<config, file>>
    ELSE IF UTF8Valid(t.found[k])
    THEN /\ Continue(task, [t EXCEPT !.idx = k, !.pc = "reply"])
         /\ UNCHANGED <<config, state, data, file>>
    ELSE Caught(task, [t EXCEPT !.idx = k], "UnicodeDecodeError")

\* bot.download_file ends: imdecode, decode, the retry on the inverted image
\* and the first turn of the reply loop, or the await of "not found"
process_photo_download_file(task) ==
    /\ At(task, {"process_photo"}, "download_file")
    /\ LET t == task IN
       \E o \in SendOutcomes :
          IF o = "ok"
          THEN LET t2 == [t EXCEPT !.img = t.event.photo,
                                   !.scanned = Attempts(t.event.photo),
                                   !.found = DecodedObjects(t.event.photo)]
               IN  /\ IF t2.found # <<>>
                      THEN ReplyLoop(task, t2, 1)
                      ELSE /\ Continue(task, [t2 EXCEPT !.pc = "not_found"])
                           /\ UNCHANGED <<config, state, data, file>>
                   /\ UNCHANGED chain
          ELSE Caught(task, t, o) /\ Disturbed(t.user)

Recognized(text) == [Reply("recognized") EXCEPT !.text = text]

\* message.answer(recognized text) ends: the next turn of the loop
process_photo_reply(task) ==
    /\ At(task, {"process_photo"}, "reply")
    /\ LET t == task IN
       \E o \in SendOutcomes :
          IF o = "ok"
          THEN /\ ReplyLoop(task, Sent(t, Recognized(UTF8Decode(t.found[t.idx]))),
                            t.idx + 1)
               /\ UNCHANGED chain
          ELSE Caught(task, t, o) /\ Disturbed(t.user)

\* message.answer(no QR code found) ends
process_photo_not_found(task) ==
    /\ At(task, {"process_photo"}, "not_found")
    /\ LET t == task IN
       \E o \in SendOutcomes :
          IF o = "ok"
          THEN /\ Clear(task, Sent(t, Reply("not_found")))
               /\ UNCHANGED <<config, file, chain>>
          ELSE Caught(task, t, o) /\ Disturbed(t.user)

\* the message.answer of the except clause ends
process_photo_failure_reply(task) ==
    /\ At(task, {"process_photo"}, "failure_reply")
    /\ LET t == task IN
       \E o \in SendOutcomes :
          IF o = "ok"
          THEN /\ Clear(task, Sent(t, Reply("photo_failure")))
               /\ UNCHANGED <<config, file, chain>>
          ELSE /\ UNCHANGED <<state, data>>
               /\ End(task, [t EXCEPT !.raised = o], "raised")
               /\ Disturbed(t.user)
               /\ UNCHANGED <<config, file>>

\* message.answer(hint) ends; state.set_state(waiting_for_input)
process_photo_hint(task) ==
    /\ At(task, {"process_photo"}, "hint")
    /\ LET t == task IN
       \E o \in SendOutcomes :
          IF o = "ok"
          THEN /\ state' = [state EXCEPT ![t.user] = WaitingForInput]
               /\ UNCHANGED data
               /\ End(task, Sent(t, Reply("hint")), "returned")
               /\ UNCHANGED <<config, file, chain>>
          ELSE /\ UNCHANGED <<state, data>>
               /\ End(task, [t EXCEPT !.raised = o], "raised")
               /\ Disturbed(t.user)
               /\ UNCHANGED <<config, file>>

(***************************************************************************)
(* process_color_choice.                                                   *)
(***************************************************************************)
\* a button press arrives in waiting_for_color, whatever its token: the
\* await of callback_query.answer()
process_color_choice_begin(u, token) ==
    /\ Handler(variant, state[u], CallbackEvent(token)) = "process_color_choice"
    /\ Arrive(NewTask("process_color_choice", u, "callback_answer",
                      CallbackEvent(token)))
    /\ IF token \in Colors THEN Pressed(u) ELSE Disturbed(u)
    /\ UNCHANGED <<config, state, data, file>>

\* callback_query.answer() ends; state.get_data(), the QR code, img.save to
\* qr_code_<user>.jpeg, then the await of bot.send_photo
process_color_choice_answered(task) ==
    /\ At(task, {"process_color_choice"}, "callback_answer")
    /\ LET t == task IN
       \E o \in SendOutcomes :
          IF o = "ok"
          THEN LET text == data[t.user]
                   enc == Encode(variant, text, t.event.data)
               IN  IF enc.err # ""
                   THEN /\ Caught(task, [t EXCEPT !.text = text], enc.err)
                        /\ IF enc.err = "DataOverflowError"
                           THEN Disturbed(t.user) ELSE UNCHANGED chain
                   ELSE /\ file' = [file EXCEPT ![t.user] = enc.img]
                        /\ Continue(task, [t EXCEPT !.text = text, !.img = enc.img,
                                                 !.pc = "send_photo"])
                        /\ UNCHANGED <<config, state, data, chain>>
          ELSE /\ UNCHANGED <<state, data>>
               /\ End(task, [t EXCEPT !.raised = o], "raised")
               /\ Disturbed(t.user)
               /\ UNCHANGED <<config, file>>

\* bot.send_photo opens FSInputFile(img_path) and reads what the file holds
\* by then, or the call fails
process_color_choice_send_photo(task) ==
    /\ At(task, {"process_color_choice"}, "send_photo")
    /\ LET t == task IN
       \/ /\ file[t.user] = NoFile
          /\ Caught(task, t, "FileNotFoundError")
          /\ UNCHANGED chain
       \/ /\ file[t.user] # NoFile
          /\ Continue(task, [t EXCEPT !.uploaded = file[t.user], !.pc = "sent"])
          /\ UNCHANGED <<config, state, data, file, chain>>
       \/ /\ Caught(task, t, "TelegramNetworkError")
          /\ Disturbed(t.user)

ImageReply(img) == [Reply("image") EXCEPT !.img = img]

\* bot.send_photo ends: the user has the image; os.remove(img_path), then
\* state.clear() and the await of the closing hint
process_color_choice_sent(task) ==
    /\ At(task, {"process_color_choice"}, "sent")
    /\ LET t == task
           t2 == Sent(t, ImageReply(t.uploaded))
       IN  /\ Delivered(t.user)
           /\ IF file[t.user] = NoFile
              THEN Caught(task, t2, "FileNotFoundError")
              ELSE /\ file' = [file EXCEPT ![t.user] = NoFile]
                   /\ Clear(task, t2)
                   /\ UNCHANGED config

\* the message.answer of the except clause ends; state.clear() and the
\* await of the closing hint
process_color_choice_failure_reply(task) ==
    /\ At(task, {"process_color_choice"}, "failure_reply")
    /\ LET t == task IN
       \E o \in SendOutcomes :
          IF o = "ok"
          THEN /\ Clear(task, Sent(t, Reply("qr_failure")))
               /\ UNCHANGED <<config, file, chain>>
          ELSE /\ UNCHANGED <<state, data>>
               /\ End(task, [t EXCEPT !.raised = o], "raised")
               /\ Disturbed(t.user)
               /\ UNCHANGED <<config, file>>

\* message.answer(hint) ends; state.set_state(waiting_for_input)
process_color_choice_hint(task) ==
    /\ At(task, {"process_color_choice"}, "hint")
    /\ LET t == task IN
       \E o \in SendOutcomes :
          IF o = "ok"
          THEN /\ state' = [state EXCEPT ![t.user] = WaitingForInput]
               /\ UNCHANGED data
               /\ End(task, Sent(t, Reply("hint")), "returned")
               /\ UNCHANGED <<config, file, chain>>
          ELSE /\ UNCHANGED <<state, data>>
               /\ End(task, [t EXCEPT !.raised = o], "raised")
               /\ Disturbed(t.user)
               /\ UNCHANGED <<config, file>>

(***************************************************************************)
(* The dispatcher.                                                         *)
(***************************************************************************)
Events ==
    {StartEvent} \cup {TextEvent(t) : t \in env.texts}
    \cup {PhotoEvent(p) : p \in env.photos}
    \cup {CallbackEvent(d) : d \in Tokens(variant)}

\* no handler accepts the update: it is dropped
Unhandled(u, ev) ==
    /\ Handler(variant, state[u], ev) = "none"
    /\ last' = NoLast
    /\ UNCHANGED <<config, state, data, file, tasks, chain>>

\* what the dispatcher of every script does
Dispatch ==
    \/ \E u \in env.users : cmd_start_begin(u)
    \/ \E u \in env.users, d \in Tokens(variant) : process_color_choice_begin(u, d)
    \/ \E u \in env.users, ev \in Events : Unhandled(u, ev)
    \/ \E task \in BagToSet(tasks) : cmd_start_welcome(task)
    \/ \E task \in BagToSet(tasks) : process_text_choose_color(task)
    \/ \E task \in BagToSet(tasks) : process_color_choice_answered(task)
    \/ \E task \in BagToSet(tasks) : process_color_choice_send_photo(task)
    \/ \E task \in BagToSet(tasks) : process_color_choice_sent(task)
    \/ \E task \in BagToSet(tasks) : process_color_choice_failure_reply(task)
    \/ \E task \in BagToSet(tasks) : process_color_choice_hint(task)

\* process_photo of main.py and main2.py
DispatchPhoto ==
    \/ \E u \in env.users, p \in env.photos : process_photo_begin(u, p)
    \/ \E task \in BagToSet(tasks) : process_photo_get_file(task)
    \/ \E task \in BagToSet(tasks) : process_photo_download_file(task)
    \/ \E task \in BagToSet(tasks) : process_photo_reply(task)
    \/ \E task \in BagToSet(tasks) : process_photo_not_found(task)
    \/ \E task \in BagToSet(tasks) : process_photo_failure_reply(task)
    \/ \E task \in BagToSet(tasks) : process_photo_hint(task)

\* main.py
NextMain ==
    \/ Dispatch
    \/ DispatchPhoto
    \/ \E u \in env.users : check_subscription_callback_begin(u)
    \/ \E u \in env.users, t \in env.texts : process_text_begin(u, t)
    \/ \E task \in BagToSet(tasks) : check_subscription_callback_answered(task)
    \/ \E task \in BagToSet(tasks) : cmd_start_get_chat_member(task)
    \/ \E task \in BagToSet(tasks) : cmd_start_get_chat(task)
    \/ \E task \in BagToSet(tasks) : cmd_start_export_chat_invite_link(task)
    \/ \E task \in BagToSet(tasks) : cmd_start_prompt(task)
    \/ \E task \in BagToSet(tasks) : cmd_start_error_reply(task)

\* main2.py and main_ru.py
NextUrl ==
    \/ Dispatch
    \/ DispatchPhoto
    \/ \E u \in env.users, ev \in Events : process_url_begin(u, ev)
    \/ \E task \in BagToSet(tasks) : process_url_not_url(task)

(***************************************************************************)
(* main: while True, dp.start_polling(bot) and its two except clauses.     *)
(***************************************************************************)
\* asyncio.sleep(5)
Backoff == 5

\* exceptions of dp.start_polling that main has no except clause for
OtherErrors == {"TelegramUnauthorizedError", "RuntimeError"}

\* what main leaves alone
sessions == <<variant, env, state, data, file, tasks, last, chain>>

\* the process is sent SIGINT or SIGTERM
main_shutdown_signal ==
    /\ main.pc \in {"polling", "sleeping"}
    /\ ~main.pending
    /\ main.signals < MaxSignals
    /\ main' = [main EXCEPT !.signals = @ + 1, !.pending = TRUE]
    /\ UNCHANGED sessions

\* the dispatcher handles the signal itself: it stops polling and
\* dp.start_polling returns.  No statement follows the await in the try, so
\* `while True` calls dp.start_polling again
main_start_polling_returns ==
    /\ main.pc = "polling"
    /\ main.pending
    /\ main.starts < MaxStarts
    /\ main' = [main EXCEPT !.pending = FALSE, !.starts = @ + 1]
    /\ UNCHANGED sessions

\* the signal cancels the task of main: dp.start_polling raises
\* CancelledError, `except asyncio.exceptions.CancelledError: break`
main_start_polling_cancelled ==
    /\ main.pc = "polling"
    /\ main.pending
    /\ main' = [main EXCEPT !.pending = FALSE, !.pc = "stopped"]
    /\ UNCHANGED sessions

\* dp.start_polling raises TelegramNetworkError: `except
\* TelegramNetworkError`, and the await of asyncio.sleep(5)
main_start_polling_network_error ==
    /\ main.pc = "polling"
    /\ ~main.pending
    /\ main' = [main EXCEPT !.pc = "sleeping", !.slept = 0]
    /\ UNCHANGED sessions

\* dp.start_polling raises an exception neither except clause names: it
\* leaves main and asyncio.run
main_start_polling_raises(e) ==
    /\ main.pc = "polling"
    /\ ~main.pending
    /\ main' = [main EXCEPT !.pc = "raised", !.exc = e]
    /\ UNCHANGED sessions

\* a second of asyncio.sleep(5) passes
main_sleep_second ==
    /\ main.pc = "sleeping"
    /\ main.slept < Backoff
    /\ main' = [main EXCEPT !.slept = @ + 1]
    /\ UNCHANGED sessions

\* asyncio.sleep(5) returns: `while True` calls dp.start_polling again
main_sleep_ends ==
    /\ main.pc = "sleeping"
    /\ ~main.pending
    /\ main.slept = Backoff
    /\ main.starts < MaxStarts
    /\ main' = [main EXCEPT !.pc = "polling", !.slept = 0, !.starts = @ + 1]
    /\ UNCHANGED sessions

\* the signal cancels the task of main in asyncio.sleep: CancelledError is
\* raised inside the except clause of TelegramNetworkError and leaves main
main_sleep_cancelled ==
    /\ main.pc = "sleeping"
    /\ main.pending
    /\ main' = [main EXCEPT !.pending = FALSE, !.pc = "raised",
                            !.exc = "CancelledError"]
    /\ UNCHANGED sessions

\* main of every script
NextLoop ==
    \/ main_shutdown_signal
    \/ main_start_polling_returns
    \/ main_start_polling_cancelled
    \/ main_start_polling_network_error
    \/ \E e \in OtherErrors : main_start_polling_raises(e)
    \/ main_sleep_second
    \/ main_sleep_ends
    \/ main_sleep_cancelled

(***************************************************************************)
(* The chats the scripts are run against.                                  *)
(***************************************************************************)
\* one user who sends "hello world", a photo without a QR code and the
\* photo of a QR code
Chat ==
    [users |-> {"u1"}, texts |-> {Hello}, photos |-> {Blank, DarkPhoto},
     statuses |-> {"member", "left"}]

\* every status in the channel
ChatOfAnyMember == [Chat EXCEPT !.statuses = Statuses]

\* a text of characters of one, two and three bytes, and a text too long
ChatOfTexts == [Chat EXCEPT !.texts = {NonAscii, TooLong}]

\* photos of no symbol, of two, of bytes that are no text, and of a symbol
\* in light modules on a dark ground
ChatOfPhotos == [Chat EXCEPT !.photos = Photos]

\* URLs and a text that is none
ChatOfUrls == [Chat EXCEPT !.texts = {Hello, UrlHttp, UrlHttps}]

\* main.py
SpecMain == Init("main", Chat) /\ [][NextMain]_vars
SpecGate == Init("main", ChatOfAnyMember) /\ [][NextMain]_vars
SpecTexts == Init("main", ChatOfTexts) /\ [][NextMain]_vars
SpecPhotos == Init("main", ChatOfPhotos) /\ [][NextMain]_vars

\* main of the three scripts, no update arriving
SpecLoop == (\E v \in Variants : Init(v, Chat)) /\ [][NextLoop]_vars

\* main2.py and main_ru.py
SpecUrl == (\E v \in {"main2", "main_ru"} : Init(v, ChatOfUrls)) /\ [][NextUrl]_vars

(***************************************************************************)
(* Properties.                                                             *)
(***************************************************************************)
\* the handler that ended in the last step
Ended(handlers) == last.task.handler \in handlers
Returned(handlers) == Ended(handlers) /\ last.task.pc = "returned"

\* the kinds of the replies a handler sent, in order
Kinds(replies) == [k \in 1..Len(replies) |-> replies[k].kind]

\* the number of handlers of user u in flight
Running(u) == BagCardinality([t \in InFlight(u) |-> tasks[t]])

\* C1: a text handled in waiting_for_input and then a press of a colour
\* end, whatever the order in which the handlers run and however often the
\* press is delivered, with exactly one image sent to the user and the
\* session in waiting_for_input.  (Stated for the runs in which no call to
\* Telegram fails, the text fits a symbol and the user sends nothing else.)
C1_OneImagePerText ==
    \A u \in Users :
        (InFlight(u) = {} /\ chain[u].pressed /\ chain[u].clean)
            => (chain[u].images = 1 /\ state[u] = WaitingForInput)

\* C2: when check_subscription_callback returns, the membership that was
\* queried is the one of the user who pressed, and the session is in
\* waiting_for_input with the welcome sent if and only if that user is
\* member, administrator or creator of the channel, and in
\* waiting_for_subscription_check otherwise
C2_GateOfThePressingUser ==
    (Returned({"check_subscription_callback"}) /\ last.task.alone
        /\ last.task.userStatus # "")
        => /\ last.task.queried = last.task.user
           /\ IF StatusSubscribed(last.task.userStatus)
              THEN /\ last.state = WaitingForInput
                   /\ Kinds(last.task.replies) = <<"welcome">>
              ELSE last.state = WaitingForSubscriptionCheck

\* C7: the events of one user are handled one at a time: no handler of a
\* user starts while another handler of that user is suspended at an await
C7_OneHandlerPerUser == \A u \in Users : Running(u) <= 1

\* what a gated /start found: the status of the user, or the exception of
\* bot.get_chat_member, and it is not one of a subscriber
NotSubscribed(t) == t.status # "" /\ ~IsUserSubscribed(t.status)

\* the handler got an invite link
HasLink(t) == t.link # ""

Handlers == BagToSet(tasks) \cup {last.task}

\* C4: without the gate, a /start that returns has sent the welcome and
\* nothing else and leaves the session in waiting_for_input, and no handler
\* ever sends the subscription prompt
C4_WelcomeWithoutGate ==
    ~GatingEnabled(variant)
        => /\ Returned({"cmd_start"})
                => /\ Kinds(last.task.replies) = <<"welcome">>
                   /\ last.state = WaitingForInput
           /\ \A t \in Handlers : \A k \in 1..Len(t.replies) :
                 t.replies[k].kind # "subscribe_prompt"

\* C4 happens: /start came to a session that held a payload, and returned
C4_Welcomed ==
    /\ ~GatingEnabled(variant)
    /\ Returned({"cmd_start"})
    /\ last.data # None
    /\ last.state = WaitingForInput

\* C5: the payload of a session is set only while the session is in
\* waiting_for_color: when no handler of the user is in flight, a session
\* with a payload is in waiting_for_color, so every handler that leaves
\* waiting_for_color, cmd_start too, has cleared the payload
C5_PayloadOnlyWhileChoosing ==
    \A u \in Users :
        (InFlight(u) = {} /\ data[u] # None) => state[u] = WaitingForColor

\* C6: when a step of the try block of process_color_choice or of
\* process_photo raised, the handler has sent the failure message and
\* leaves the session in waiting_for_input
C6_FailureReportedAndReset ==
    (Ended({"process_color_choice", "process_photo"}) /\ last.task.err # "")
        => /\ \E k \in 1..Len(last.task.replies) :
                 last.task.replies[k].kind \in {"qr_failure", "photo_failure"}
           /\ last.state = WaitingForInput

\* the replies decoded objects call for: the text of every one, in order
RecognizedReplies(found) ==
    [k \in 1..Len(found) |->
        [kind |-> "recognized", text |-> UTF8Decode(found[k]),
         img |-> NoImage, link |-> "", buttons |-> {}]]

\* C8: a photo handled in waiting_for_input whose decoding raises nothing
\* (every decoded object is UTF-8) is answered, before the closing hint,
\* with the text of every decoded symbol in the order of detection when
\* there is one, and with the one "not found" message when there is none,
\* never with both and never with the failure message; the handler leaves
\* the session in waiting_for_input, and without data when no other
\* handler of the user ran beside it
C8_PhotoReplies ==
    (Returned({"process_photo"}) /\ last.task.err = "")
        => LET t == last.task
               found == DecodedObjects(t.event.photo)
           IN  /\ \A k \in 1..Len(found) : UTF8Valid(found[k])
               /\ t.replies = (IF found # <<>>
                               THEN RecognizedReplies(found)
                               ELSE <<Reply("not_found")>>) \o <<Reply("hint")>>
               /\ \A k \in 1..Len(t.replies) : t.replies[k].kind # "photo_failure"
               /\ last.state = WaitingForInput
               /\ t.alone => last.data = None

\* C8 happens: the photo of two symbols was answered
C8_TwoRecognized ==
    /\ Returned({"process_photo"})
    /\ last.task.err = ""
    /\ last.task.event.photo = TwoSymbols
    /\ Kinds(last.task.replies) = <<"recognized", "recognized", "hint">>

\* the colours of the picture of a colour choice
ColorsOf(img) == [back |-> img.back, fill |-> img.fill]
LightColors == [back |-> "white", fill |-> "black"]
DarkColors == [back |-> "black", fill |-> "white"]

\* C9: the image process_color_choice makes is black on white for "light"
\* and white on black for "dark"; "hello world" and then "dark", handled
\* with no other handler of the user beside, is answered with exactly one
\* image, white on black, and leaves the session in waiting_for_input
C9_ColorsOfTheChoice ==
    /\ \A t \in Handlers :
          (t.handler = "process_color_choice" /\ t.img # NoImage)
              => /\ t.event.data = "light" => ColorsOf(t.img) = LightColors
                 /\ t.event.data = "dark" => ColorsOf(t.img) = DarkColors
    /\ (Returned({"process_color_choice"}) /\ last.task.alone
            /\ last.task.err = "" /\ last.task.text = Hello
            /\ last.task.event.data = "dark")
          => /\ Kinds(last.task.replies) = <<"image", "hint">>
             /\ ColorsOf(last.task.replies[1].img) = DarkColors
             /\ last.state = WaitingForInput

\* C9 happens: "hello world" and "dark" were answered with an image
C9_DarkHello ==
    /\ Returned({"process_color_choice"})
    /\ last.task.alone
    /\ last.task.text = Hello
    /\ last.task.event.data = "dark"
    /\ Kinds(last.task.replies) = <<"image", "hint">>

C11_SubscribedStatuses ==
    \A t \in BagToSet(tasks) :
        (/\ t.handler \in StartHandlers
         /\ t.pc \in {"welcome", "get_chat"}
         /\ t.status \in Statuses)
        => (t.pc = "welcome" <=> t.status \in {"member", "administrator", "creator"})

\* a membership query answered "restricted"
C11_RestrictedRefused ==
    \E t \in BagToSet(tasks) :
        /\ t.handler = "cmd_start"
        /\ t.status = "restricted"
        /\ t.pc = "get_chat"

(***************************************************************************)
(* C12.  When the membership query of a cmd_start fails, the cmd_start     *)
(* that returns has shown the caller exactly one error message             *)
(* (configuration_error, or the unexpected_error that stands for it when   *)
(* the channel lookup fails too) and no subscribe prompt.                  *)
(* is_user_subscribed swallows the failure and answers False, and cmd_start*)
(* goes on as for a user who is not subscribed: the prompt is sent when    *)
(* the channel lookup succeeds.                                            *)
(***************************************************************************)
QueryFailed(t) == t.status \in {"TelegramBadRequest", "TelegramNetworkError"}

C12_ErrorMessageWhenQueryFails ==
    (Returned(StartHandlers) /\ QueryFailed(last.task))
    => /\ Len(last.task.replies) = 1
       /\ last.task.replies[1].kind \in {"configuration_error", "unexpected_error"}

(***************************************************************************)
(* C13.  A handler that caught a failure and returned has replied in the   *)
(* chat and left the session in waiting_for_input.  The except clauses of  *)
(* cmd_start, which catch the failure of bot.get_chat and of               *)
(* export_chat_invite_link, reply and set no state.                        *)
(***************************************************************************)
C13_CaughtFailureResets ==
    (Returned({"cmd_start", "check_subscription_callback", "process_photo",
               "process_color_choice"}) /\ last.task.err # "")
    => /\ last.task.replies # <<>>
       /\ last.state = WaitingForInput

(***************************************************************************)
(* C14.  A process_color_choice that found no payload in the session       *)
(* (state.get_data() holds no text) and returned has sent no image and no  *)
(* failure message, and leaves the data empty and the state                *)
(* waiting_for_input.  In main.py text.encode raises AttributeError on the *)
(* missing payload and the except clause sends the failure message; in     *)
(* main2.py and main_ru.py qr.add_data encodes the missing url as "None"   *)
(* and the image is sent.                                                  *)
(***************************************************************************)
C14_NoPayloadIsNoOp ==
    (Returned({"process_color_choice"}) /\ last.task.text = None)
    => /\ \A k \in 1..Len(last.task.replies) :
             last.task.replies[k].kind \notin {"image", "qr_failure"}
       /\ last.task.img = NoImage
       /\ last.data = None
       /\ last.state = WaitingForInput

(***************************************************************************)
(* C15.  In waiting_for_color only the tokens "light" and "dark" build and *)
(* send an image: a process_color_choice handling any other token, such as *)
(* the "check_subscription" of the subscribe prompt still in the chat,     *)
(* builds no image, sends none, and leaves the payload in the session.     *)
(* The handler is registered for every callback in waiting_for_color and   *)
(* treats every token other than "light" as dark.                          *)
(***************************************************************************)
C15_OnlyLightOrDark ==
    \A t \in Handlers :
        (t.handler = "process_color_choice" /\ t.event.data \notin {"light", "dark"})
        => /\ t.img = NoImage
           /\ \A k \in 1..Len(t.replies) : t.replies[k].kind # "image"
           /\ (t = last.task /\ t.pc = "returned" /\ t.alone /\ t.text # None)
              => last.data = t.text

(***************************************************************************)
(* C16.  In main2.py and main_ru.py a session that has no state yet (its   *)
(* user never sent /start) is treated as one in the state of               *)
(* waiting_for_input: the dispatcher gives a text or a photo of that user  *)
(* to the handler it would give it to in waiting_for_input.  The handlers  *)
(* are registered for the state alone, so the update of a session without  *)
(* state matches none and is dropped.                                      *)
(***************************************************************************)
C16_FirstMessageHandled ==
    \A u \in env.users, ev \in Events :
        (~GatingEnabled(variant) /\ state[u] = NoState /\ ev.kind \in {"text", "photo"})
        => Handler(variant, state[u], ev) = Handler(variant, WaitingForInput, ev)

(***************************************************************************)
(* C17.  process_url of main2.py and main_ru.py.  A message whose text is  *)
(* missing or starts with neither "http://" nor "https://" changes neither *)
(* the state nor the payload of the session, when it arrives and when its  *)
(* handler returns, and the handler that returns has sent the one reply    *)
(* 'not a URL'.  A text with one of the prefixes is stored as the payload  *)
(* when it arrives, and the handler that returns has offered the colours   *)
(* and moved the session to waiting_for_color.                             *)
(***************************************************************************)
HasUrlPrefix(text) ==
    text # None /\ (StartsWith(text, HttpPrefix) \/ StartsWith(text, HttpsPrefix))

\* the process_url handlers suspended at the await pc
AwaitingAt(pc) ==
    BagCardinality([t \in {x \in BagToSet(tasks) :
                              x.handler = "process_url" /\ x.pc = pc} |-> tasks[t]])

C17_UrlOrRefusal ==
    [][/\ AwaitingAt("not_url")' > AwaitingAt("not_url")
          => (state' = state /\ data' = data)
       /\ AwaitingAt("choose_color")' > AwaitingAt("choose_color")
          => \E u \in env.users : HasUrlPrefix(data'[u]) /\ state' = state
       /\ (last'.task.handler = "process_url" /\ last'.task.pc = "returned")
          => LET t == last'.task IN
             IF HasUrlPrefix(t.event.text)
             THEN /\ Kinds(t.replies) = <<"choose_color">>
                  /\ state'[t.user] = WaitingForColor
                  /\ data' = data
                  /\ t.alone => data'[t.user] = t.event.text
             ELSE /\ Kinds(t.replies) = <<"not_url">>
                  /\ state' = state
                  /\ data' = data
                  /\ t.alone => state'[t.user] = WaitingForInput]_vars

\* "hello world" was refused and the session still waits for input
C17_HelloRefused ==
    /\ Returned({"process_url"})
    /\ last.task.event.text = Hello
    /\ Kinds(last.task.replies) = <<"not_url">>
    /\ last.state = WaitingForInput
    /\ last.data = None

(***************************************************************************)
(* C18.  process_photo decodes the downloaded picture, and decodes its     *)
(* inverse exactly once if and only if the first attempt found no symbol:  *)
(* never when the first attempt found one.  decoded_objects is what the    *)
(* first attempt found when it found a symbol, else what the attempt on    *)
(* the inverse found, which may be nothing.                                *)
(***************************************************************************)
C18_InvertedOnlyAfterNothing ==
    \A t \in Handlers :
        (t.handler = "process_photo" /\ t.img # NoImage)
        => LET first == Scan(t.img)
               inverse == BitwiseNot(t.img)
           IN  /\ Len(t.scanned) \in {1, 2}
               /\ t.scanned[1] = t.img
               /\ Len(t.scanned) = 2 <=> first = <<>>
               /\ Len(t.scanned) = 2 => t.scanned[2] = inverse
               /\ t.found = IF first # <<>> THEN first ELSE Scan(inverse)

\* the symbol in light modules on a dark ground was found on the inverse
C18_FoundOnInverse ==
    \E t \in Handlers :
        /\ t.handler = "process_photo"
        /\ t.img = DarkPhoto
        /\ Len(t.scanned) = 2
        /\ t.found = <<UTF8Encode(Hello)>>

(***************************************************************************)
(* C19.  After a shutdown signal main does not start polling again: no     *)
(* step taken after a signal was sent calls dp.start_polling, whether the  *)
(* polling ended by CancelledError or by dp.start_polling returning after  *)
(* the dispatcher handled the signal.  main breaks on CancelledError only; *)
(* when dp.start_polling returns, `while True` calls it again.             *)
(***************************************************************************)
C19_NoPollingAfterShutdown ==
    [][main.signals > 0 => main'.starts = main.starts]_vars

(***************************************************************************)
(* C20.  main leaves its loop on an explicit shutdown only: whenever main  *)
(* has stopped or an exception has left it, a shutdown signal was sent     *)
(* before.  main catches TelegramNetworkError and CancelledError; every    *)
(* other exception of dp.start_polling leaves main.                        *)
(***************************************************************************)
C20_EndsOnShutdownOnly ==
    main.pc \in {"stopped", "raised"} => main.signals > 0

(***************************************************************************)
(* C21.  A handler that an outbound call left with an exception, and that  *)
(* ran beside no other handler of its user, leaves the session as it found *)
(* it: the state its filter required when the update arrived, the payload  *)
(* that process_text or process_url found before storing its own, and the  *)
(* payload process_color_choice read.  process_text stores the payload     *)
(* before it awaits its reply; process_photo and process_color_choice      *)
(* clear the session before they await the closing hint.                   *)
(***************************************************************************)
\* the state in which the dispatcher gives an update to the handler
AcceptedIn(handler) ==
    IF handler = "process_color_choice" THEN WaitingForColor
    ELSE IF handler = "check_subscription_callback" THEN WaitingForSubscriptionCheck
    ELSE WaitingForInput

C21_FailedHandlerLeavesSession ==
    (/\ Ended({"process_text", "process_url", "process_photo",
               "process_color_choice", "check_subscription_callback"})
     /\ last.task.pc = "raised"
     /\ last.task.alone)
    => LET t == last.task IN
       /\ last.state = AcceptedIn(t.handler)
       /\ (t.handler = "process_text"
           \/ (t.handler = "process_url" /\ HasUrlPrefix(t.event.text)))
          => last.data = t.replaced
       /\ (t.handler = "process_color_choice" /\ t.text # None)
          => last.data = t.text

(***************************************************************************)
(* C22.  A process_color_choice sends the file it wrote itself and removes *)
(* only its own: the picture it uploads is the picture it built, and the   *)
(* file it saved is still there, holding that picture, when it opens it    *)
(* for sending, also when another process_color_choice of the same user is *)
(* in flight.  The path is qr_code_<user id>.jpeg: two handlers of one     *)
(* user write, read and remove the same file.                              *)
(***************************************************************************)
C22_OwnFile ==
    \A t \in Handlers :
        t.handler = "process_color_choice"
        => /\ t.uploaded # NoImage => t.uploaded = t.img
           /\ (t \in BagToSet(tasks) /\ t.pc = "send_photo") => file[t.user] = t.img
           /\ t.err # "FileNotFoundError"

(***************************************************************************)
(* C23.  When a process_color_choice that saved qr_code_<user id>.jpeg has *)
(* ended, the file is gone, whether the picture was sent or a call raised: *)
(* stated for a handler that ran beside no other handler of its user.      *)
(* os.remove is the last statement of the try: when bot.send_photo raises, *)
(* the except clause is entered and the file stays.                        *)
(***************************************************************************)
C23_FileRemoved ==
    (/\ Ended({"process_color_choice"})
     /\ last.task.alone
     /\ last.task.img # NoImage)
    => file[last.task.user] = NoFile

(***************************************************************************)
(* C24.  main.py.  An update no handler accepts in the state of its        *)
(* session is dropped: no handler starts for it, so nothing is sent and    *)
(* nothing encoded or decoded, and the step changes neither state, payload *)
(* nor file.  These updates have no handler: a text or a photo in          *)
(* waiting_for_color; a text, a photo or a press of a colour in            *)
(* waiting_for_subscription_check and in a session without state; a press  *)
(* of "check_subscription" in waiting_for_input.                           *)
(***************************************************************************)
NotAccepted(st, ev) ==
    \/ st = WaitingForColor /\ ev.kind \in {"text", "photo"}
    \/ /\ st \in {WaitingForSubscriptionCheck, NoState}
       /\ \/ ev.kind \in {"text", "photo"}
          \/ ev.kind = "callback" /\ ev.data \in {"light", "dark"}
    \/ st = WaitingForInput /\ ev.kind = "callback" /\ ev.data = "check_subscription"

\* the tasks of the bag that are task t, but for the mark alone
Copies(bag, t) ==
    BagCardinality([x \in {y \in BagToSet(bag) :
                              [y EXCEPT !.alone = TRUE] = [t EXCEPT !.alone = TRUE]}
                       |-> bag[x]])

C24_DroppedWithoutEffect ==
    [][/\ \A u \in env.users, ev \in Events :
             NotAccepted(state[u], ev) => Handler(variant, state[u], ev) = "none"
       /\ BagCardinality(tasks') > BagCardinality(tasks)
          => \A t \in BagToSet(tasks') :
                Copies(tasks', t) > Copies(tasks, t)
                => ~NotAccepted(state[t.user], t.event)
       /\ (tasks' = tasks /\ last' = NoLast)
          => (state' = state /\ data' = data /\ file' = file)]_vars

\* a text or a photo was dropped in waiting_for_color: no handler is in
\* flight, none ended in the last step, and the session still holds the
\* payload and waits for the colour
C24_DroppedWhileChoosing ==
    /\ tasks = EmptyBag
    /\ last = NoLast
    /\ state["u1"] = WaitingForColor
    /\ data["u1"] = Hello

=============================================================================
